---- MODULE Spec2Model ----
(***************************************************************************)
(* Model of backend/app.py of the rehab-app backend: the JSON record store *)
(* (patients, assessments, workouts), the score engine, the chart          *)
(* aggregations, the report composer and the markup-to-PDF renderer.       *)
(*                                                                         *)
(* Python values that the code converts with int() are modelled as tagged  *)
(* records, dicts as insertion-ordered sequences of key/value entries, and *)
(* text as sequences of one-character strings, so that int(), dict.get(),  *)
(* str.strip(), str.startswith() and str.replace() are computed and not    *)
(* assumed.                                                                *)
(***************************************************************************)
EXTENDS Integers, Sequences, FiniteSets, TLC

VARIABLES
    patients,         \* content of PATIENTS_FILE (list of records)
    assessments,      \* content of ASSESSMENTS_FILE
    workouts,         \* content of WORKOUTS_FILE
    created,          \* history: records created per collection since its last clear
    resp,             \* response of the last request
    config,           \* process configuration: genai importable, GEMINI_API_KEY set, reportlab importable
    today,            \* current UTC date, as a proleptic ordinal
    data,             \* Assessment.data given to compute_assessment_score
    score,            \* result of compute_assessment_score(data)
    score0,           \* result for the same fields before they were reordered
    content,          \* _build_pdf_bytes: the content argument (characters)
    lineNo,           \* _build_pdf_bytes: number of lines of content.split('\n') consumed
    story,            \* _build_pdf_bytes: story
    current_section,  \* _build_pdf_bytes: current_section
    in_bullet_list,   \* _build_pdf_bytes: in_bullet_list
    inflight,         \* create requests under way in the server processes
    pc                \* position of the operation under way

vars == <<patients, assessments, workouts, created, resp, config, today, data,
          score, score0, content, lineNo, story, current_section,
          in_bullet_list, inflight, pc>>

storeVars == <<patients, assessments, workouts, created>>
scoreVars == <<data, score, score0>>
renderVars == <<content, lineNo, story, current_section, in_bullet_list>>

(***************************************************************************)
(* Generic helpers                                                         *)
(***************************************************************************)
Min(a, b) == IF a <= b THEN a ELSE b
Max(a, b) == IF a >= b THEN a ELSE b

Range(s) == {s[i] : i \in 1..Len(s)}

RECURSIVE SumSeq(_)
SumSeq(s) == IF s = <<>> THEN 0 ELSE Head(s) + SumSeq(Tail(s))

\* All sequences over S of length at most n.
SeqUpTo(S, n) == UNION {[1..k -> S] : k \in 0..n}

(***************************************************************************)
(* Python values and built-ins                                             *)
(***************************************************************************)
\* A JSON/Python value: tag "int" (the integer n), "numstr" (the string that
\* spells the integer n), "text" (a string that spells no integer) and
\* "null" (None).
PyInt5 == [tag |-> "int", n |-> 5]
PyInt3 == [tag |-> "int", n |-> 3]
PyInt7 == [tag |-> "int", n |-> 7]
PyStr4 == [tag |-> "numstr", n |-> 4]
PyText == [tag |-> "text", n |-> 0]
PyNone == [tag |-> "null", n |-> 0]

\* int(v): ok is FALSE where Python raises ValueError or TypeError.
int(v) ==
    IF v.tag \in {"int", "numstr"}
    THEN [ok |-> TRUE, val |-> v.n]
    ELSE [ok |-> FALSE, val |-> 0]

\* round(num / den) for den > 0: Python 3 rounds to nearest, ties to even.
round(num, den) ==
    LET q == num \div den
        r == num - q * den
    IN  IF 2 * r < den THEN q
        ELSE IF 2 * r > den THEN q + 1
        ELSE IF q % 2 = 0 THEN q ELSE q + 1

\* d.get(k) on a dict kept as its insertion-ordered sequence of entries.
RECURSIVE DictGet(_, _)
DictGet(d, k) ==
    IF d = <<>> THEN PyNone
    ELSE IF Head(d).k = k THEN Head(d).v
    ELSE DictGet(Tail(d), k)

(***************************************************************************)
(* Score engine                                                            *)
(***************************************************************************)
ScoreKeys == <<"fineMotor_grip", "grossMotor_balance", "cognitive_approach",
               "emotional_quality", "communication_clarity",
               "communication_grammar">>

RatingScale == 5

\* A score engine that counts a non-convertible value as 0 instead of skipping it.
CollectValuesNoSkip(d, i, values) ==
    LET present == SelectSeq(ScoreKeys, LAMBDA k : DictGet(d, k) # PyNone)
    IN  [j \in 1..Len(present) |-> int(DictGet(d, present[j])).val]

\* The loop of compute_assessment_score: the values list after keys[i..].
RECURSIVE CollectValues(_, _, _)
CollectValues(d, i, values) ==
    IF i > Len(ScoreKeys) THEN values
    ELSE LET v == DictGet(d, ScoreKeys[i])
         IN  IF v # PyNone /\ int(v).ok
             THEN CollectValues(d, i + 1, Append(values, int(v).val))
             ELSE CollectValues(d, i + 1, values)

PercentageScore(values) ==
    IF values = <<>> THEN 0
    ELSE round(SumSeq(values) * 100, Len(values) * RatingScale)

compute_assessment_score(d) == PercentageScore(CollectValues(d, 1, <<>>))

(***************************************************************************)
(* Inputs and idle values shared by the specifications                     *)
(***************************************************************************)
MaxFields == 3

\* Keys an Assessment.data mapping is drawn from: rated keys and one
\* free-form key the score engine does not know.
InputKeys == {"fineMotor_grip", "grossMotor_balance", "emotional_quality",
              "communication_clarity", "fineMotor_notes"}

InputValues == {PyInt5, PyInt3, PyInt7, PyStr4, PyText, PyNone}

DictKeys(d) == {d[i].k : i \in 1..Len(d)}

NoResp == [kind |-> "none"]
NoConfig == [genai |-> FALSE, key |-> FALSE, reportlab |-> FALSE]
IdleClock == today = 0

IdleStore ==
    /\ patients = <<>>
    /\ assessments = <<>>
    /\ workouts = <<>>
    /\ created = [patients |-> <<>>, assessments |-> <<>>, workouts |-> <<>>]

IdleScore == data = <<>> /\ score = 0 /\ score0 = 0

\* The server processes that share DATA_DIR, and a process serving nothing.
Workers == {1, 2}
Waiting == [pc |-> "idle"]
NoRequests == [req |-> [w \in Workers |-> Waiting], log |-> <<>>]
IdleWorkers == inflight = NoRequests

IdleRender ==
    /\ content = <<>>
    /\ lineNo = 0
    /\ story = <<>>
    /\ current_section = <<>>
    /\ in_bullet_list = FALSE

\* The response is handed to the client; the next request can be served.
send_response ==
    /\ pc = "responding"
    /\ resp' = NoResp
    /\ pc' = "idle"
    /\ UNCHANGED <<storeVars, scoreVars, renderVars, config, inflight, today>>

(***************************************************************************)
(* SpecScore: compute_assessment_score applied to bounded data mappings    *)
(***************************************************************************)
InitScore ==
    /\ IdleStore /\ IdleRender /\ IdleWorkers
    /\ resp = NoResp /\ config = NoConfig /\ IdleClock
    /\ data = <<>>
    /\ score = 0 /\ score0 = 0
    /\ pc = "input"

\* The request payload sets one more field of the data mapping.
AddField ==
    /\ pc = "input"
    /\ Len(data) < MaxFields
    /\ \E k \in InputKeys \ DictKeys(data), v \in InputValues :
        data' = Append(data, [k |-> k, v |-> v])
    /\ UNCHANGED <<storeVars, renderVars, resp, config, inflight, today, score, score0, pc>>

ComputeScore ==
    /\ pc = "input"
    /\ score' = compute_assessment_score(data)
    /\ score0' = score'
    /\ pc' = "scored"
    /\ UNCHANGED <<storeVars, renderVars, resp, config, inflight, today, data>>

\* The same mapping built in another insertion order, scored again.
ReorderFields ==
    /\ pc = "scored"
    /\ \E i, j \in 1..Len(data) :
        /\ i < j
        /\ data' = [data EXCEPT ![i] = data[j], ![j] = data[i]]
    /\ score' = compute_assessment_score(data')
    /\ pc' = "reordered"
    /\ UNCHANGED <<storeVars, renderVars, resp, config, inflight, today, score0>>

NextScore == AddField \/ ComputeScore \/ ReorderFields

SpecScore == InitScore /\ [][NextScore]_vars

(***************************************************************************)
(* Score engine: properties                                                *)
(***************************************************************************)
\* The rated keys whose value in d is present and converts to an integer.
ConvertibleKeys(d) ==
    {k \in Range(ScoreKeys) :
        \E i \in 1..Len(d) :
            d[i].k = k /\ d[i].v.tag \in {"int", "numstr"}}

\* The integer that the entry of key k in d spells.
RatingOf(d, k) == (CHOOSE e \in Range(d) : e.k = k).v.n

RECURSIVE SumRatings(_, _)
SumRatings(d, K) ==
    IF K = {} THEN 0
    ELSE LET k == CHOOSE x \in K : TRUE
         IN  RatingOf(d, k) + SumRatings(d, K \ {k})

Scored == pc \in {"scored", "reordered"}

\* C4 (as claimed): compute_assessment_score returns an integer in [0,100]
\* for any values stored in the rated fields, and so does every value of the
\* progress-over-time series.
ScoreWithinPercent ==
    /\ Scored => score \in 0..100
    /\ resp.kind = "progress" =>
           \A i \in 1..Len(resp.data) : resp.data[i] \in 0..100

\* C6: the score is round(sum / (count*5) * 100) over exactly the present,
\* integer-convertible values of the six rated keys (the nearest integer to
\* 100*sum/(5*count)); it is 0 when there is none, 100 when all of them are
\* 5, 80 for {fineMotor_grip: 5, grossMotor_balance: 3}, and it is the same
\* for every insertion order of the fields.
ScoreIsRoundedMean ==
    Scored =>
        LET K == ConvertibleKeys(data)
            n == Cardinality(K)
            total == SumRatings(data, K)
            off == score * RatingScale * n - 100 * total
        IN  /\ n = 0 => score = 0
            /\ n > 0 => 2 * off <= RatingScale * n /\ -2 * off <= RatingScale * n
            /\ (n > 0 /\ \A k \in K : RatingOf(data, k) = 5) => score = 100
            /\ Range(data) = {[k |-> "fineMotor_grip", v |-> PyInt5],
                              [k |-> "grossMotor_balance", v |-> PyInt3]}
                   => score = 80
            /\ pc = "reordered" => score = score0

\* C6 witness: a reordered mapping with ratings 5 and 3 and a value that does
\* not convert, scored 80.
ScoreIsRoundedMeanWitness ==
    /\ pc = "reordered"
    /\ score = 80
    /\ Len(data) = 3
    /\ data[1] = [k |-> "grossMotor_balance", v |-> PyInt3]
    /\ data[2] = [k |-> "communication_clarity", v |-> PyText]
    /\ data[3] = [k |-> "fineMotor_grip", v |-> PyInt5]

(***************************************************************************)
(* Calendar: datetime.date as its ordinal, with ordinal 1 = 2025-01-01     *)
(* (2025 and 2026 have 365 days each)                                      *)
(***************************************************************************)
MonthLengths == <<31, 28, 31, 30, 31, 30, 31, 31, 30, 31, 30, 31>>
MonthNames == <<"Jan", "Feb", "Mar", "Apr", "May", "Jun",
                "Jul", "Aug", "Sep", "Oct", "Nov", "Dec">>

\* Month and day of month of the day-of-year doy, searching from month m.
RECURSIVE MonthDay(_, _)
MonthDay(doy, m) ==
    IF doy <= MonthLengths[m] THEN [month |-> m, day |-> doy]
    ELSE MonthDay(doy - MonthLengths[m], m + 1)

\* date.fromordinal(o)
fromordinal(o) ==
    LET md == MonthDay(((o - 1) % 365) + 1, 1)
    IN  [year |-> 2025 + ((o - 1) \div 365), month |-> md.month, day |-> md.day]

\* d.isoformat(): year, month and day, which the text spells one to one.
isoformat(o) == fromordinal(o)

\* d.strftime('%b %d'): month abbreviation and day of month, no year.
strftime(o) == [mon |-> MonthNames[fromordinal(o).month], day |-> fromordinal(o).day]


(***************************************************************************)
(* Stored records                                                          *)
(***************************************************************************)
\* A stored assessment: [id, patientId, timestamp, data], timestamp being the
\* date (ordinal) that parse_iso_ts(...).date() yields for it.
SampleData ==
    { <<>>,
      <<[k |-> "fineMotor_grip", v |-> PyInt5],
        [k |-> "grossMotor_balance", v |-> PyInt3]>>,
      <<[k |-> "fineMotor_grip", v |-> PyText]>>,
      <<[k |-> "fineMotor_grip", v |-> PyInt7]>> }

PatientIds == {"p1", "p2"}

\* str(a.get('patientId')) == str(patientId), for the `if patientId:` filters;
\* the empty string is the absent filter.
FilterByPatient(items, patientId) ==
    IF patientId # ""
    THEN SelectSeq(items, LAMBDA a : a.patientId = patientId)
    ELSE items

(***************************************************************************)
(* Aggregator: progress-over-time series                                   *)
(***************************************************************************)
DefaultDays == 7
MaxDays == 90

\* n = max(1, min(int(days or 7), 90)): a day count of 0 is falsy.
ProgressDayCount(days) == Max(1, Min(IF days # 0 THEN days ELSE 7, MaxDays))

\* dates: today first, then the day i days back for i in 1..n-1, and the
\* list reversed: element i of the result is element n + 1 - i of that list.
ProgressDates(n, t) ==
    [i \in 1..n |-> LET j == n + 1 - i IN IF j = 1 THEN t ELSE t - (j - 1)]

\* buckets[iso]: the scores of the assessments dated iso, in list order.
BucketScores(items, o) ==
    LET hit == SelectSeq(items, LAMBDA a : isoformat(a.timestamp) = isoformat(o))
    IN  [i \in 1..Len(hit) |-> compute_assessment_score(hit[i].data)]

BucketMean(vals) == IF vals # <<>> THEN round(SumSeq(vals), Len(vals)) ELSE 0

\* The request's `days` query parameter: given or omitted (then the default).
DaysParam(q) == IF q.given THEN q.n ELSE DefaultDays

progress_response(items, patientId, q, t) ==
    LET raw == FilterByPatient(items, patientId)
        n == ProgressDayCount(DaysParam(q))
        dates == ProgressDates(n, t)
    IN  [kind |-> "progress",
         query |-> q,
         labels |-> [i \in 1..n |-> strftime(dates[i])],
         data |-> [i \in 1..n |-> BucketMean(BucketScores(raw, dates[i]))]]

(***************************************************************************)
(* SpecProgress: the progress chart over bounded stored assessments        *)
(***************************************************************************)
MaxAssess == 2

\* 2026-01-02 and 2026-11-06
TodayInputs == {367, 675}

DayCounts == {-3, 0, 1, 3, 91}
DayQueries == {[given |-> FALSE, n |-> 0]} \cup [given : {TRUE}, n : DayCounts]

StoredAssessments(t) ==
    [id : {"ASSESS_1"}, patientId : PatientIds, timestamp : {t - 2, t},
     data : SampleData]

InitProgress ==
    /\ IdleScore /\ IdleRender /\ IdleWorkers
    /\ patients = <<>> /\ workouts = <<>>
    /\ today \in TodayInputs
    /\ assessments \in SeqUpTo(StoredAssessments(today), MaxAssess)
    /\ created = [patients |-> <<>>, assessments |-> assessments, workouts |-> <<>>]
    /\ resp = NoResp /\ config = NoConfig
    /\ pc = "idle"

chart_dashboard_progress ==
    /\ pc = "idle"
    /\ \E patientId \in {"", "p1"}, q \in DayQueries :
        resp' = progress_response(assessments, patientId, q, today)
    /\ pc' = "responding"
    /\ UNCHANGED <<storeVars, scoreVars, renderVars, config, inflight, today>>

NextProgress == chart_dashboard_progress \/ send_response

SpecProgress == InitProgress /\ [][NextProgress]_vars

\* C5 (as claimed): for every requested day count N, 0 and negative values
\* included, the series has exactly min(90, max(1, N)) buckets (7 when N is
\* omitted), labelled with the consecutive calendar days that end today,
\* oldest first, and as many data values as labels.
ProgressLengthIsClampedDays ==
    resp.kind = "progress" =>
        LET n == Min(90, Max(1, IF resp.query.given THEN resp.query.n ELSE 7))
        IN  /\ Len(resp.labels) = n
            /\ Len(resp.data) = n
            /\ \A i \in 1..Len(resp.labels) :
                   resp.labels[i] = strftime(today - (Len(resp.labels) - i))

(***************************************************************************)
(* Aggregator: activity distribution                                       *)
(***************************************************************************)
Categories == <<"fine-motor", "gross-motor", "cognitive", "sensory",
                "communication", "social", "adl", "attention">>

DistributionLabels == <<"Fine Motor", "Gross Motor", "Cognitive", "Sensory",
                        "Communication", "Social", "ADL", "Attention">>

\* str.lower() on the category texts the requests carry.
lower(c) ==
    CASE c = "Fine-Motor" -> "fine-motor"
      [] c = "ADL" -> "adl"
      [] c = "Fine Motor" -> "fine motor"
      [] OTHER -> c

\* A category text taken as it was written.
SameCase(c) == c

\* (w.category or '').lower()
CategoryKey(c) == lower(c)

\* The counting loop: counts is the dict {category: count} as a function.
RECURSIVE CountCategories(_, _)
CountCategories(ws, counts) ==
    IF ws = <<>> THEN counts
    ELSE LET c == CategoryKey(Head(ws).category)
         IN  IF c \in DOMAIN counts
             THEN CountCategories(Tail(ws), [counts EXCEPT ![c] = @ + 1])
             ELSE CountCategories(Tail(ws), counts)

compute_activity_distribution(ws) ==
    LET counts == CountCategories(ws, [c \in Range(Categories) |-> 0])
    IN  [labels |-> DistributionLabels,
         data |-> [i \in 1..Len(Categories) |-> counts[Categories[i]]]]

distribution_response(items, patientId) ==
    LET ws == FilterByPatient(items, patientId)
        d == compute_activity_distribution(ws)
    IN  [kind |-> "distribution", patientId |-> patientId,
         labels |-> d.labels, data |-> d.data]

(***************************************************************************)
(* SpecDistribution: the distribution chart over bounded stored workouts   *)
(***************************************************************************)
MaxWorkouts == 3

CategoryInputs == {"fine-motor", "Fine-Motor", "ADL", "Fine Motor", "unknown", ""}

StoredWorkouts ==
    [id : {"WORK_1"}, patientId : PatientIds, activityName : {"Stacking"},
     category : CategoryInputs, duration : {15}, timestamp : {0}]

WorkoutOf(c) ==
    [id |-> "WORK_1", patientId |-> "p1", activityName |-> "Stacking",
     category |-> c, duration |-> 15, timestamp |-> 0]

\* Four fine-motor workouts followed by six of an unknown category.
ScenarioWorkouts ==
    [i \in 1..10 |-> IF i <= 4 THEN WorkoutOf("fine-motor") ELSE WorkoutOf("unknown")]

InitDistribution ==
    /\ IdleScore /\ IdleRender /\ IdleClock /\ IdleWorkers
    /\ patients = <<>> /\ assessments = <<>>
    /\ workouts \in SeqUpTo(StoredWorkouts, MaxWorkouts) \cup {ScenarioWorkouts}
    /\ created = [patients |-> <<>>, assessments |-> <<>>, workouts |-> workouts]
    /\ resp = NoResp /\ config = NoConfig
    /\ pc = "idle"

chart_homeworkout_distribution ==
    /\ pc = "idle"
    /\ \E patientId \in {"", "p1"} :
        resp' = distribution_response(workouts, patientId)
    /\ pc' = "responding"
    /\ UNCHANGED <<storeVars, scoreVars, renderVars, config, inflight, today>>

NextDistribution == chart_homeworkout_distribution \/ send_response

SpecDistribution == InitDistribution /\ [][NextDistribution]_vars

\* The workouts a distribution response was computed from.
CountedWorkouts == FilterByPatient(workouts, resp.patientId)

\* Two category texts that differ at most in letter case.
EqualIgnoringCase(a, b) == lower(a) = lower(b)

\* C7: each of the 8 category counts is the number of workouts whose category
\* matches it case-insensitively, a workout of a category outside the
\* vocabulary is counted nowhere, no workout is counted twice, and the counts
\* sum to at most the number of workouts (4 fine-motor + 6 unknown gives
\* Fine Motor = 4 and 0 elsewhere).
DistributionCountsEachOnce ==
    resp.kind = "distribution" =>
        LET ws == CountedWorkouts
            known == {j \in 1..Len(ws) :
                         \E i \in 1..Len(Categories) :
                             EqualIgnoringCase(ws[j].category, Categories[i])}
        IN  /\ Len(resp.data) = 8
            /\ \A i \in 1..8 :
                   resp.data[i] =
                       Cardinality({j \in 1..Len(ws) :
                           EqualIgnoringCase(ws[j].category, Categories[i])})
            /\ SumSeq(resp.data) = Cardinality(known)
            /\ SumSeq(resp.data) <= Len(ws)
            /\ ws = ScenarioWorkouts => resp.data = <<4, 0, 0, 0, 0, 0, 0, 0>>

\* C7 witness: a mixed-case category counted once next to an unknown one.
DistributionCountsEachOnceWitness ==
    /\ resp.kind = "distribution"
    /\ Len(CountedWorkouts) = 3
    /\ CountedWorkouts[1].category = "Fine-Motor"
    /\ CountedWorkouts[2].category = "unknown"
    /\ CountedWorkouts[3].category = "fine-motor"
    /\ resp.data = <<2, 0, 0, 0, 0, 0, 0, 0>>

(***************************************************************************)
(* Record store and request handlers                                       *)
(***************************************************************************)
PyEmpty == [tag |-> "empty", n |-> 0]
PyInt6 == [tag |-> "int", n |-> 6]

\* bool(v): None, the empty string and 0 are falsy.
Truthy(v) ==
    CASE v.tag = "null" -> FALSE
      [] v.tag = "empty" -> FALSE
      [] v.tag = "int" -> v.n # 0
      [] OTHER -> TRUE

\* str(v)
str(v) ==
    CASE v.tag \in {"int", "numstr"} -> ToString(v.n)
      [] v.tag = "empty" -> ""
      [] v.tag = "null" -> "None"
      [] OTHER -> "abc"

\* a or b
PyOr(a, b) == IF Truthy(a) THEN a ELSE b

\* _read_json(path): the stored list (json.loads of what json.dumps wrote).
_read_json(file) == file

\* The list that _write_json(path, items) leaves in the file.
_write_json(items) == items

\* datetime.now().timestamp()*1000 as read by a request: the clock is not
\* guaranteed to differ between two requests.
Times == {1, 2}

\* name.strip() on the names the requests carry.
strip_name(name) == IF name = " Ann " THEN "Ann" ELSE name

NameInputs == {"Ann", " Ann "}
AgeInputs == {PyNone, PyInt6}

\* Items with a record put first instead of last.
Prepend(items, rec) == <<rec>> \o items

\* items.append(rec)
append(items, rec) == Append(items, rec)

MaxRecords == 2

StoredCount == Len(patients) + Len(assessments) + Len(workouts)

\* POST /api/patients
create_patient ==
    /\ pc = "idle"
    /\ StoredCount < MaxRecords
    /\ \E name \in NameInputs, age \in AgeInputs, t \in Times :
        LET items == _read_json(patients)
            rec == [id |-> ToString(t), name |-> strip_name(name), age |-> age]
        IN  /\ patients' = _write_json(append(items, rec))
            /\ created' = [created EXCEPT !.patients = Append(@, rec)]
            /\ resp' = [kind |-> "patient", status |-> 200, record |-> rec]
    /\ pc' = "responding"
    /\ UNCHANGED <<assessments, workouts, scoreVars, renderVars, config, inflight, today>>

\* The selector of POST /api/admin/clear; omitted, it is "all".
ClearTypes == {"all", "patients", "assessments", "workouts", "everything"}
ClearQueries == {[given |-> FALSE, type |-> ""]} \cup [given : {TRUE}, type : ClearTypes]
ClearParam(q) == IF q.given THEN q.type ELSE "all"

\* A clear that takes every selector for "all".
ClearsAlways(type, names) == TRUE

\* `type in (name, "all")`
Clears(type, names) == type \in names

\* POST /api/admin/clear
admin_clear ==
    /\ pc = "idle"
    /\ \E q \in ClearQueries :
        LET type == ClearParam(q)
            a == Clears(type, {"assessments", "all"})
            w == Clears(type, {"workouts", "all"})
            p == Clears(type, {"patients", "all"})
        IN  /\ assessments' = IF a THEN _write_json(<<>>) ELSE assessments
            /\ workouts' = IF w THEN _write_json(<<>>) ELSE workouts
            /\ patients' = IF p THEN _write_json(<<>>) ELSE patients
            /\ created' = [patients |-> IF p THEN <<>> ELSE created.patients,
                           assessments |-> IF a THEN <<>> ELSE created.assessments,
                           workouts |-> IF w THEN <<>> ELSE created.workouts]
            /\ resp' = [kind |-> "cleared", status |-> 200, type |-> type,
                        query |-> q]
    /\ pc' = "responding"
    /\ UNCHANGED <<scoreVars, renderVars, config, inflight, today>>

PyId1 == [tag |-> "numstr", n |-> 1]
PyId2 == [tag |-> "numstr", n |-> 2]

\* Request bodies of POST /api/assessments, as dicts.
AssessmentPayloads ==
    { <<[k |-> "patientId", v |-> PyId1],
        [k |-> "fineMotor_grip", v |-> PyInt5],
        [k |-> "grossMotor_balance", v |-> PyInt3]>>,
      <<[k |-> "patientId", v |-> PyId2],
        [k |-> "fineMotor_grip", v |-> PyText]>>,
      <<[k |-> "patient_id", v |-> PyId1],
        [k |-> "fineMotor_grip", v |-> PyInt7]>>,
      <<[k |-> "patientId", v |-> PyEmpty],
        [k |-> "patient_id", v |-> PyId2]>>,
      <<[k |-> "fineMotor_grip", v |-> PyInt5]>>,
      <<[k |-> "patientId", v |-> PyEmpty],
        [k |-> "fineMotor_grip", v |-> PyInt3]>>,
      <<[k |-> "patientId", v |-> PyNone],
        [k |-> "patient_id", v |-> PyEmpty]>> }

\* payload[k] = v: replaces the value of k, or adds k at the end.
DictSet(d, k, v) ==
    IF k \in DictKeys(d)
    THEN [i \in 1..Len(d) |-> IF d[i].k = k THEN [k |-> k, v |-> v] ELSE d[i]]
    ELSE Append(d, [k |-> k, v |-> v])

\* The patient identifier the handler settles on (falsy: the request is
\* rejected): payload.get('patientId') or payload.get('patient_id').
PayloadPatientId(payload) ==
    PyOr(DictGet(payload, "patientId"), DictGet(payload, "patient_id"))

\* Whether the handler raises HTTPException(400).
RejectsAnyPayload(payload) == FALSE

RejectsPayload(payload) ==
    /\ ~Truthy(DictGet(payload, "patientId"))
    /\ ~Truthy(PayloadPatientId(payload))

\* {k: v for k, v in payload.items() if k not in ['patientId', 'timestamp']}
PayloadData(payload) ==
    SelectSeq(payload, LAMBDA e : e.k \notin {"patientId", "timestamp"})

\* json.loads(assessment.model_dump_json())
AssessmentRecord(payload, t, now) ==
    LET pid == IF Truthy(DictGet(payload, "patientId"))
               THEN DictGet(payload, "patientId")
               ELSE PayloadPatientId(payload)
        full == DictSet(payload, "patientId", pid)
    IN  [id |-> "ASSESS_" \o ToString(t),
         patientId |-> str(DictGet(full, "patientId")),
         timestamp |-> now,
         data |-> PayloadData(full)]

\* POST /api/assessments
create_assessment ==
    /\ pc = "idle"
    /\ StoredCount < MaxRecords
    /\ \E payload \in AssessmentPayloads, t \in Times :
        IF RejectsPayload(payload)
        THEN /\ resp' = [kind |-> "error", status |-> 400,
                         detail |-> "patientId is required", payload |-> payload]
             /\ UNCHANGED storeVars
        ELSE LET rec == AssessmentRecord(payload, t, today)
                 items_raw == _read_json(assessments)
             IN  /\ assessments' = _write_json(append(items_raw, rec))
                 /\ created' = [created EXCEPT !.assessments = Append(@, rec)]
                 /\ resp' = [kind |-> "assessment", status |-> 200, record |-> rec,
                             score |-> compute_assessment_score(rec.data),
                             payload |-> payload]
                 /\ UNCHANGED <<patients, workouts>>
    /\ pc' = "responding"
    /\ UNCHANGED <<scoreVars, renderVars, config, inflight, today>>

WorkoutInputs ==
    [patientId : {"1", "2"}, activityName : {"Stacking"},
     category : {"fine-motor"}, duration : {15}]

\* POST /api/workouts
create_workout ==
    /\ pc = "idle"
    /\ StoredCount < MaxRecords
    /\ \E w \in WorkoutInputs, t \in Times :
        LET items == _read_json(workouts)
            rec == [id |-> "WORK_" \o ToString(t), patientId |-> w.patientId,
                    activityName |-> w.activityName, category |-> w.category,
                    duration |-> w.duration, timestamp |-> today]
        IN  /\ workouts' = _write_json(append(items, rec))
            /\ created' = [created EXCEPT !.workouts = Append(@, rec)]
            /\ resp' = [kind |-> "workout", status |-> 200, record |-> rec]
    /\ pc' = "responding"
    /\ UNCHANGED <<patients, assessments, scoreVars, renderVars, config, inflight, today>>

(***************************************************************************)
(* SpecWorkers: create requests served by two server processes that share  *)
(* DATA_DIR. A handler is a coroutine without an await, so one process     *)
(* runs it from its read to its write without a break; nothing orders the  *)
(* read and the write of one process against those of another.             *)
(***************************************************************************)
Collections == {"assessments", "workouts"}

FileOf(c) == IF c = "assessments" THEN assessments ELSE workouts

WorkerPayloads ==
    { <<[k |-> "patientId", v |-> PyId1], [k |-> "fineMotor_grip", v |-> PyInt5]>> }

WorkerWorkouts == {w \in WorkoutInputs : w.patientId = "1"}

\* The record create_workout builds from a WorkoutCreate.
WorkoutRecord(w, t, now) ==
    [id |-> "WORK_" \o ToString(t), patientId |-> w.patientId,
     activityName |-> w.activityName, category |-> w.category,
     duration |-> w.duration, timestamp |-> now]

\* The records the create requests of a collection can carry to the store.
NewRecords(c) ==
    IF c = "assessments"
    THEN {AssessmentRecord(p, t, today) : p \in WorkerPayloads, t \in Times}
    ELSE {WorkoutRecord(w, t, today) : w \in WorkerWorkouts, t \in Times}

\* The list written back if the handler appended to what the file holds at
\* the time of the write.
WrittenListReread(file, items, rec) == append(file, rec)

\* items.append(rec); _write_json(FILE, items): the list written back is the
\* list the handler read, plus its record, whatever the file holds by then.
WrittenList(file, items, rec) == append(items, rec)

InitWorkers ==
    /\ IdleStore /\ IdleScore /\ IdleRender /\ IdleWorkers /\ IdleClock
    /\ resp = NoResp /\ config = NoConfig
    /\ pc = "workers"

\* Process w takes a create request up to items = _read_json(FILE).
worker_read(w) ==
    /\ pc = "workers"
    /\ inflight.req[w].pc = "idle"
    /\ StoredCount < MaxRecords
    /\ \E c \in Collections :
        /\ \E rec \in NewRecords(c) :
            inflight' =
                [req |-> [inflight.req EXCEPT ![w] =
                            [pc |-> "read", file |-> c,
                             items |-> _read_json(FileOf(c)), rec |-> rec]],
                 log |-> Append(inflight.log, [op |-> "read", w |-> w])]
    /\ UNCHANGED <<storeVars, scoreVars, renderVars, resp, config, today, pc>>

\* Process w goes on: items.append(rec); _write_json(FILE, items).
worker_write(w) ==
    /\ pc = "workers"
    /\ inflight.req[w].pc = "read"
    /\ LET r == inflight.req[w]
           written == _write_json(WrittenList(FileOf(r.file), r.items, r.rec))
       IN  /\ assessments' = IF r.file = "assessments" THEN written ELSE assessments
           /\ workouts' = IF r.file = "workouts" THEN written ELSE workouts
           /\ created' = [created EXCEPT ![r.file] = Append(@, r.rec)]
           /\ inflight' =
                [req |-> [inflight.req EXCEPT ![w].pc = "done"],
                 log |-> Append(inflight.log, [op |-> "write", w |-> w])]
    /\ UNCHANGED <<patients, scoreVars, renderVars, resp, config, today, pc>>

\* The requests that were written are answered; no request is half-way.
workers_respond ==
    /\ pc = "workers"
    /\ \A w \in Workers : inflight.req[w].pc # "read"
    /\ \E w \in Workers : inflight.req[w].pc = "done"
    /\ inflight' = NoRequests
    /\ UNCHANGED <<storeVars, scoreVars, renderVars, resp, config, today, pc>>

NextWorkers ==
    \/ \E w \in Workers : worker_read(w)
    \/ \E w \in Workers : worker_write(w)
    \/ workers_respond

SpecWorkers == InitWorkers /\ [][NextWorkers]_vars

\* Two create requests on one collection, both answered, whose two reads both
\* came before the first of their two writes.
BothReadBeforeEitherWrote ==
    /\ \A w \in Workers : inflight.req[w].pc = "done"
    /\ inflight.req[1].file = inflight.req[2].file
    /\ Len(inflight.log) = 4
    /\ inflight.log[1].op = "read" /\ inflight.log[2].op = "read"

FirstWriter == inflight.log[3].w
LastWriter == inflight.log[4].w

compute_dashboard_stats(as, ws, t) ==
    LET ids == {as[i].patientId : i \in 1..Len(as)} \cup
               {ws[i].patientId : i \in 1..Len(ws)}
        todays == SelectSeq(as, LAMBDA a : isoformat(a.timestamp) = isoformat(t))
        scores == [i \in 1..Len(as) |-> compute_assessment_score(as[i].data)]
        avg_progress_list == SelectSeq(scores, LAMBDA x : x > 0)
    IN  [activePatients |-> Cardinality(ids),
         todaysAssessments |-> Len(todays),
         averageProgress |-> BucketMean(avg_progress_list),
         homeWorkouts |-> Len(ws)]

\* _read_patients_as_map().get(pid): <<>> for None, else the one record;
\* a later record of the same id replaces an earlier one.
PatientsMapGet(items, pid) ==
    LET hits == {i \in 1..Len(items) : items[i].id = pid}
    IN  IF hits = {} THEN <<>>
        ELSE <<items[CHOOSE i \in hits : \A j \in hits : j <= i]>>

\* any(compute_assessment_score(a) > 0 for a in assessments)
HasScores(as) == \E i \in 1..Len(as) : compute_assessment_score(as[i].data) > 0

\* A composer that consults the generator before looking at the data.
NeverInsufficient(as, ws) == FALSE

\* The guard of the insufficient-data narrative.
InsufficientData(as, ws) == ~HasScores(as) /\ Len(ws) = 0

\* genai is None or not GEMINI_API_KEY or not GEMINI_MODEL_NAME (the model
\* name is set exactly when genai was imported).
NotConfigured(c) == ~c.genai \/ ~c.key

InsufficientContent(info) ==
    [kind |-> "insufficient",
     pname |-> IF info = <<>> THEN "the patient" ELSE info[1].name,
     age |-> IF info = <<>> THEN PyNone ELSE info[1].age]

PlaceholderContent(stats) ==
    [kind |-> "not_configured",
     activePatients |-> stats.activePatients,
     averageProgress |-> stats.averageProgress,
     homeWorkouts |-> stats.homeWorkouts]

\* getattr(result, 'text', None) or "No content generated."
GeneratedContent(text) ==
    [kind |-> "generated",
     text |-> IF text # "" THEN text ELSE "No content generated."]

FallbackContent(reason, stats) ==
    [kind |-> "failed", reason |-> reason,
     activePatients |-> stats.activePatients,
     averageProgress |-> stats.averageProgress,
     homeWorkouts |-> stats.homeWorkouts]

\* A handler without the except clause: the error reaches the caller.
PropagatedError(reason, stats) == [kind |-> "exception", reason |-> reason]

\* The except clause of the generator call.
OnGeneratorError(reason, stats) == FallbackContent(reason, stats)

\* What model.generate_content does: return a text, or raise.
GeneratorOutcomes ==
    {[ok |-> TRUE, text |-> "# Patient Summary"],
     [ok |-> TRUE, text |-> ""],
     [ok |-> FALSE, text |-> "timeout"]}

\* The outcome recorded for a request that did not call the generator.
NoOutcome == [ok |-> TRUE, text |-> "not called"]

\* content and whether the generator was called, for one request.
ComposeReport(as, ws, info, stats, c, outcome) ==
    LET early == InsufficientData(as, ws)
    IN  IF NotConfigured(c)
        THEN [invoked |-> FALSE,
              content |-> IF early THEN InsufficientContent(info)
                          ELSE PlaceholderContent(stats)]
        ELSE IF early
        THEN [invoked |-> FALSE, content |-> InsufficientContent(info)]
        ELSE [invoked |-> TRUE,
              content |-> IF outcome.ok THEN GeneratedContent(outcome.text)
                          ELSE OnGeneratorError(outcome.text, stats)]

ReportRequests ==
    {r \in [patientId : {"", "1", "9"}, reportType : {"daily"},
             format : {"text", "pdf"}, acceptsPdf : BOOLEAN] :
        ~(r.format = "pdf" /\ r.acceptsPdf)}

\* (req.format or "").lower() == "pdf" or "application/pdf" in accept
WantsPdf(req) == req.format = "pdf" \/ req.acceptsPdf

\* POST /api/reports/generate
generate_report ==
    /\ pc = "idle"
    /\ \E req \in ReportRequests, outcome \in GeneratorOutcomes :
        LET as == FilterByPatient(_read_json(assessments), req.patientId)
            ws == FilterByPatient(_read_json(workouts), req.patientId)
            stats == compute_dashboard_stats(as, ws, today)
            info == IF req.patientId # ""
                    THEN PatientsMapGet(_read_json(patients), req.patientId)
                    ELSE <<>>
            made == ComposeReport(as, ws, info, stats, config, outcome)
        IN  resp' =
              IF made.content.kind = "exception"
              THEN [kind |-> "error", status |-> 500, req |-> req,
                    invoked |-> made.invoked,
                    outcome |-> IF made.invoked THEN outcome ELSE NoOutcome,
                    content |-> made.content]
              ELSE [kind |-> IF WantsPdf(req) THEN "report_pdf" ELSE "report",
                    status |-> 200, req |-> req,
                    invoked |-> made.invoked,
                    outcome |-> IF made.invoked THEN outcome ELSE NoOutcome,
                    content |-> made.content,
                    filename |-> <<"report", req.reportType,
                                   IF info = <<>> THEN "all" ELSE info[1].id>>]
    /\ pc' = "responding"
    /\ UNCHANGED <<storeVars, scoreVars, renderVars, config, inflight, today>>

(***************************************************************************)
(* Spec: the record store and the report composer, one request at a time   *)
(***************************************************************************)
\* 2026-11-06
Init ==
    /\ IdleStore /\ IdleScore /\ IdleRender /\ IdleWorkers
    /\ today = 675
    /\ config \in [genai : BOOLEAN, key : BOOLEAN, reportlab : {TRUE}]
    /\ resp = NoResp
    /\ pc = "idle"

Next ==
    \/ send_response
    \/ create_patient
    \/ create_assessment
    \/ create_workout
    \/ admin_clear
    \/ generate_report

Spec == Init /\ [][Next]_vars

(***************************************************************************)
(* Report composer: properties                                             *)
(***************************************************************************)
\* A report request has been answered and the answer not yet handed over.
ReportAnswered == pc = "responding" /\ resp.kind \in {"report", "report_pdf", "error"}
                      /\ "req" \in DOMAIN resp

\* The records a report request covers: the store, filtered by its patient.
CoveredAssessments == FilterByPatient(assessments, resp.req.patientId)
CoveredWorkouts == FilterByPatient(workouts, resp.req.patientId)

Configured == config.genai /\ config.key

NothingScored ==
    \A i \in 1..Len(CoveredAssessments) :
        compute_assessment_score(CoveredAssessments[i].data) <= 0

\* C2: with no workouts and no assessment scoring above 0, the report is the
\* fixed insufficient-data narrative, configured generator or not, and the
\* generator is not invoked.
InsufficientDataSkipsGenerator ==
    (ReportAnswered /\ CoveredWorkouts = <<>> /\ NothingScored) =>
        /\ resp.status = 200
        /\ resp.content.kind = "insufficient"
        /\ ~resp.invoked

\* C2 witness: a configured generator, a stored assessment that scores 0, no
\* workout, and the insufficient-data narrative returned.
InsufficientDataSkipsGeneratorWitness ==
    /\ ReportAnswered
    /\ Configured
    /\ CoveredAssessments # <<>>
    /\ CoveredWorkouts = <<>>
    /\ NothingScored
    /\ resp.content.kind = "insufficient"

\* C3: when the generator is configured, the data suffice and the generator
\* call fails, the request still succeeds with the fallback summary that
\* carries the failure reason and the three headline stats; the error does
\* not reach the caller.
GeneratorFailureFallsBack ==
    (/\ ReportAnswered
     /\ Configured
     /\ ~(CoveredWorkouts = <<>> /\ NothingScored)
     /\ resp.invoked
     /\ ~resp.outcome.ok) =>
        LET stats == compute_dashboard_stats(CoveredAssessments, CoveredWorkouts, today)
        IN  /\ resp.status = 200
            /\ resp.kind \in {"report", "report_pdf"}
            /\ resp.content =
                   [kind |-> "failed", reason |-> resp.outcome.text,
                    activePatients |-> stats.activePatients,
                    averageProgress |-> stats.averageProgress,
                    homeWorkouts |-> stats.homeWorkouts]

\* C3 witness: a failed generator call answered with the fallback summary.
GeneratorFailureFallsBackWitness ==
    /\ ReportAnswered
    /\ resp.invoked
    /\ ~resp.outcome.ok
    /\ resp.status = 200
    /\ resp.content.kind = "failed"
    /\ resp.content.homeWorkouts = 1
    /\ resp.content.averageProgress = 80

\* C13: a report answered as a PDF document is named report_{reportType}_{p},
\* p being the patient id the request filtered by, and "all" exactly when the
\* request gave no patient filter. The code takes p from the patient record
\* found for the filter, and names the file "all" when there is none.
PdfFilenameNamesFilter ==
    resp.kind = "report_pdf" =>
        resp.filename = <<"report", resp.req.reportType,
                          IF resp.req.patientId # "" THEN resp.req.patientId
                          ELSE "all">>

(***************************************************************************)
(* Record store: properties                                                *)
(***************************************************************************)
\* The payload carries no patient identifier: `patientId` and `patient_id`
\* are absent, null or empty.
HasNoPatientId(payload) ==
    \A i \in 1..Len(payload) :
        payload[i].k \in {"patientId", "patient_id"} =>
            payload[i].v \in {PyNone, PyEmpty}

StoreUnchanged ==
    patients' = patients /\ assessments' = assessments /\ workouts' = workouts

\* C8: creating an assessment whose payload has no patient identifier is
\* rejected with status 400 and leaves the three collections unchanged.
MissingPatientIdRejected ==
    [][(/\ pc = "idle"
        /\ resp'.kind \in {"assessment", "error"}
        /\ "payload" \in DOMAIN resp'
        /\ HasNoPatientId(resp'.payload)) =>
            (resp'.status = 400 /\ StoreUnchanged)]_vars

\* C8 witness: a rejected creation while records are stored.
MissingPatientIdRejectedWitness ==
    /\ resp.kind = "error"
    /\ resp.status = 400
    /\ HasNoPatientId(resp.payload)
    /\ assessments # <<>>

\* C9: each collection is always the sequence of the records created in it
\* since its last clear, in creation order; a create appends its record at
\* the end of its collection and changes nothing else.
StoreIsCreationHistory ==
    /\ [](/\ patients = created.patients
          /\ assessments = created.assessments
          /\ workouts = created.workouts)
    /\ [][(pc = "idle" /\ resp'.kind \in {"patient", "assessment", "workout"}) =>
            /\ patients' = IF resp'.kind = "patient"
                           THEN Append(patients, resp'.record) ELSE patients
            /\ assessments' = IF resp'.kind = "assessment"
                              THEN Append(assessments, resp'.record) ELSE assessments
            /\ workouts' = IF resp'.kind = "workout"
                           THEN Append(workouts, resp'.record) ELSE workouts]_vars

\* C9 witness: two different assessments stored in the order of creation.
StoreIsCreationHistoryWitness ==
    /\ resp.kind = "assessment"
    /\ Len(assessments) = 2
    /\ assessments[1] # assessments[2]
    /\ assessments[2] = resp.record

\* C10: a clear with selector patients, assessments or workouts empties that
\* collection and leaves the other two; `all`, also the default, empties the
\* three; any other selector leaves the three unchanged.
ClearEmptiesSelected ==
    [][(pc = "idle" /\ resp'.kind = "cleared") =>
        LET type == IF resp'.query.given THEN resp'.query.type ELSE "all"
        IN  /\ patients' = IF type \in {"patients", "all"} THEN <<>> ELSE patients
            /\ assessments' = IF type \in {"assessments", "all"} THEN <<>> ELSE assessments
            /\ workouts' = IF type \in {"workouts", "all"} THEN <<>> ELSE workouts]_vars

\* C10 witness: a clear of the assessments that left a stored patient.
ClearEmptiesSelectedWitness ==
    /\ resp.kind = "cleared"
    /\ resp.query = [given |-> TRUE, type |-> "assessments"]
    /\ patients # <<>>
    /\ assessments = <<>>

(***************************************************************************)
(* Derived read queries: dashboard stats, skills radar, skill-performance  *)
(* report and session history                                              *)
(***************************************************************************)
RECURSIVE Concat(_)
Concat(ss) == IF ss = <<>> THEN <<>> ELSE Head(ss) \o Concat(Tail(ss))

\* The keys among keys whose value in data d is not None, in order.
PresentKeys(d, keys) == SelectSeq(keys, LAMBDA k : DictGet(d, k) # PyNone)

\* The loop of chart_dashboard_skills over the keys of one category in one
\* assessment: int(v) of every value that is not None, a failing int(v) skipped.
GuardedValues(d, keys) ==
    LET good == SelectSeq(PresentKeys(d, keys), LAMBDA k : int(DictGet(d, k)).ok)
    IN  [j \in 1..Len(good) |-> int(DictGet(d, good[j])).val]

\* categories of chart_dashboard_skills
SkillsCategories ==
    << [label |-> "Fine Motor", keys |-> <<"fineMotor_grip", "fineMotor_beads">>],
       [label |-> "Gross Motor",
        keys |-> <<"grossMotor_balance", "grossMotor_time", "grossMotor_falls">>],
       [label |-> "Cognitive", keys |-> <<"cognitive_approach", "cognitive_memory">>],
       [label |-> "Sensory", keys |-> <<"sensory_behavior">>],
       [label |-> "Communication",
        keys |-> <<"communication_clarity", "communication_grammar">>],
       [label |-> "Social", keys |-> <<"social_interaction">>],
       [label |-> "ADL", keys |-> <<"adl_independence">>],
       [label |-> "Attention", keys |-> <<"attention_span">>] >>

skills_response(items, patientId) ==
    LET raw == FilterByPatient(items, patientId)
        vals(keys) == Concat([i \in 1..Len(raw) |-> GuardedValues(raw[i].data, keys)])
    IN  [kind |-> "skills", status |-> 200, patientId |-> patientId,
         labels |-> [c \in 1..Len(SkillsCategories) |-> SkillsCategories[c].label],
         data |-> [c \in 1..Len(SkillsCategories) |->
                     PercentageScore(vals(SkillsCategories[c].keys))]]

\* categories of reports_skill_performance
PerformanceCategories ==
    << [label |-> "Fine Motor Skills", keys |-> <<"fineMotor_grip">>],
       [label |-> "Gross Motor Skills", keys |-> <<"grossMotor_balance">>],
       [label |-> "Cognitive Abilities", keys |-> <<"cognitive_approach">>],
       [label |-> "Communication Skills",
        keys |-> <<"communication_clarity", "communication_grammar">>],
       [label |-> "Social Skills", keys |-> <<>>],
       [label |-> "ADL Skills", keys |-> <<"adl_independence">>],
       [label |-> "Sensory Processing", keys |-> <<"sensory_behavior">>],
       [label |-> "Attention & Concentration", keys |-> <<>>] >>

\* Whether [int(a.data.get(k)) for k in keys if a.data.get(k) is not None]
\* raises: some value that is not None has no int().
ComprehensionRaises(d, keys) ==
    \E j \in 1..Len(keys) :
        DictGet(d, keys[j]) # PyNone /\ ~int(DictGet(d, keys[j])).ok

\* scores of one category: one percentage per assessment that has values.
CategoryScores(as, keys) ==
    LET withVals == SelectSeq(as, LAMBDA a : PresentKeys(a.data, keys) # <<>>)
    IN  [i \in 1..Len(withVals) |->
            PercentageScore(GuardedValues(withVals[i].data, keys))]

PerformanceRow(as, cat) ==
    LET scores == CategoryScores(as, cat.keys)
        prev_scores == IF Len(scores) > 1 THEN SubSeq(scores, 1, Len(scores) - 1)
                       ELSE <<>>
        current == BucketMean(scores)
        previous == IF prev_scores # <<>> THEN BucketMean(prev_scores)
                    ELSE Max(0, current - 5)
    IN  [skill |-> cat.label,
         current |-> current,
         previous |-> previous,
         goal |-> IF current # 0 THEN Min(100, Max(80, current + 5)) ELSE 80,
         status |-> IF current >= previous THEN "On Track"
                    ELSE IF current > 0 THEN "Improving"
                    ELSE "Needs Attention"]

\* The response to an exception no handler catches.
InternalServerError(query, patientId) ==
    [kind |-> "error", status |-> 500, query |-> query, patientId |-> patientId]

skill_performance_response(items, patientId) ==
    LET as == FilterByPatient(items, patientId)
    IN  IF \E i \in 1..Len(as), c \in 1..Len(PerformanceCategories) :
              ComprehensionRaises(as[i].data, PerformanceCategories[c].keys)
        THEN InternalServerError("skill_performance", patientId)
        ELSE [kind |-> "skill_performance", status |-> 200, patientId |-> patientId,
              results |-> [c \in 1..Len(PerformanceCategories) |->
                              PerformanceRow(as, PerformanceCategories[c])]]

\* Whether a.get('data', {}).get('fineMotor_notes', '')[:60] raises: the
\* value is there and is no string.
NotesRaise(d) ==
    /\ "fineMotor_notes" \in DictKeys(d)
    /\ DictGet(d, "fineMotor_notes").tag \notin {"text", "numstr", "empty"}

\* The notes of a session: '' when the key is absent (the stored texts are
\* shorter than the 60 characters kept).
SessionNotes(d) ==
    IF "fineMotor_notes" \in DictKeys(d) THEN DictGet(d, "fineMotor_notes")
    ELSE PyEmpty

\* Dates as isoformat() spells them compare as the dates do.
DateGeq(a, b) ==
    \/ a.year > b.year
    \/ a.year = b.year /\ a.month > b.month
    \/ a.year = b.year /\ a.month = b.month /\ a.day >= b.day

\* items.sort(key=lambda x: x['date'], reverse=True): latest first, items of
\* one date in the order they had.
RECURSIVE SortByDateDesc(_)
SortByDateDesc(items) ==
    IF items = <<>> THEN <<>>
    ELSE LET n == Len(items)
             sorted == SortByDateDesc(SubSeq(items, 1, n - 1))
             x == items[n]
             keep == Cardinality({i \in 1..Len(sorted) : DateGeq(sorted[i].date, x.date)})
         IN  SubSeq(sorted, 1, keep) \o <<x>> \o SubSeq(sorted, keep + 1, Len(sorted))

SessionItem(a, ps) ==
    LET p == PatientsMapGet(ps, a.patientId)
    IN  [date |-> isoformat(a.timestamp),
         patient |-> IF p # <<>> /\ p[1].name # "" THEN p[1].name ELSE a.patientId,
         patientId |-> a.patientId,
         age |-> IF p # <<>> THEN p[1].age ELSE PyNone,
         duration |-> 45,
         activities |-> "Assessment Session",
         score |-> compute_assessment_score(a.data),
         notes |-> SessionNotes(a.data)]

session_history_response(items, ps, patientId) ==
    LET as == FilterByPatient(items, patientId)
    IN  IF \E i \in 1..Len(as) : NotesRaise(as[i].data)
        THEN InternalServerError("session_history", patientId)
        ELSE [kind |-> "session_history", status |-> 200, patientId |-> patientId,
              items |-> SortByDateDesc([i \in 1..Len(as) |-> SessionItem(as[i], ps)])]

(***************************************************************************)
(* SpecQueries: the derived read queries over bounded stored records       *)
(***************************************************************************)
\* Data mappings of stored assessments: those of SampleData, one with a
\* rating that is a numeric string and notes, one whose notes are a number.
QueryData ==
    SampleData \cup
    { <<[k |-> "communication_clarity", v |-> PyStr4],
        [k |-> "fineMotor_notes", v |-> PyText]>>,
      <<[k |-> "grossMotor_balance", v |-> PyInt3],
        [k |-> "fineMotor_notes", v |-> PyInt5]>> }

QueryAssessments(t) ==
    [id : {"ASSESS_1"}, patientId : PatientIds, timestamp : {t - 2, t},
     data : QueryData]

QueryFilters == {"", "p1"}

\* 2026-11-06
InitQueries ==
    /\ IdleScore /\ IdleRender /\ IdleWorkers
    /\ today = 675
    /\ patients \in {<<>>, <<[id |-> "p1", name |-> "Ann", age |-> PyInt6]>>}
    /\ assessments \in SeqUpTo(QueryAssessments(today), MaxAssess)
    /\ workouts \in {<<>>, <<WorkoutRecord([patientId |-> "p1", activityName |-> "Stacking",
                                            category |-> "fine-motor", duration |-> 15],
                                           1, today)>>}
    /\ created = [patients |-> patients, assessments |-> assessments,
                  workouts |-> workouts]
    /\ resp = NoResp /\ config = NoConfig
    /\ pc = "idle"

\* GET /api/stats/dashboard
dashboard_stats ==
    /\ pc = "idle"
    /\ \E patientId \in QueryFilters :
        resp' = [kind |-> "stats", status |-> 200, patientId |-> patientId,
                 stats |-> compute_dashboard_stats(
                              FilterByPatient(assessments, patientId),
                              FilterByPatient(workouts, patientId), today)]
    /\ pc' = "responding"
    /\ UNCHANGED <<storeVars, scoreVars, renderVars, config, inflight, today>>

\* GET /api/charts/dashboard/skills
chart_dashboard_skills ==
    /\ pc = "idle"
    /\ \E patientId \in QueryFilters :
        resp' = skills_response(assessments, patientId)
    /\ pc' = "responding"
    /\ UNCHANGED <<storeVars, scoreVars, renderVars, config, inflight, today>>

\* GET /api/reports/skill-performance
reports_skill_performance ==
    /\ pc = "idle"
    /\ \E patientId \in QueryFilters :
        resp' = skill_performance_response(assessments, patientId)
    /\ pc' = "responding"
    /\ UNCHANGED <<storeVars, scoreVars, renderVars, config, inflight, today>>

\* GET /api/reports/session-history
reports_session_history ==
    /\ pc = "idle"
    /\ \E patientId \in QueryFilters :
        resp' = session_history_response(assessments, patients, patientId)
    /\ pc' = "responding"
    /\ UNCHANGED <<storeVars, scoreVars, renderVars, config, inflight, today>>

NextQueries ==
    \/ dashboard_stats
    \/ chart_dashboard_progress
    \/ chart_dashboard_skills
    \/ reports_skill_performance
    \/ reports_session_history
    \/ send_response

SpecQueries == InitQueries /\ [][NextQueries]_vars

\* The assessments a derived query covers, and whether a rating of theirs
\* under one of the keys has no int().
QueryCovered == FilterByPatient(assessments, resp.patientId)

HasUnconvertibleRating ==
    \E i \in 1..Len(QueryCovered), c \in 1..Len(PerformanceCategories) :
        ComprehensionRaises(QueryCovered[i].data, PerformanceCategories[c].keys)

NoContribution(keys) ==
    \A i \in 1..Len(QueryCovered) : GuardedValues(QueryCovered[i].data, keys) = <<>>

\* C12: every derived read query over stored assessments is answered, also
\* when a rating has no integer value, and a category without a contributing
\* value reports 0. The code answers the skill-performance report with an
\* internal error as soon as a covered rating has no int().
DerivedQueriesAlwaysAnswer ==
    /\ resp.kind # "error"
    /\ resp.kind = "skills" =>
        \A c \in 1..Len(SkillsCategories) :
            NoContribution(SkillsCategories[c].keys) => resp.data[c] = 0
    /\ resp.kind = "skill_performance" =>
        \A c \in 1..Len(PerformanceCategories) :
            NoContribution(PerformanceCategories[c].keys) => resp.results[c].current = 0

(***************************************************************************)
(* Document renderer: _build_pdf_bytes                                     *)
(*                                                                         *)
(* Text is a sequence of characters; "NL" is the newline, "&nbsp;" the     *)
(* entity the code inserts, "<bullet>" and "<circle>" the two bullet       *)
(* glyphs.                                                                 *)
(***************************************************************************)
\* s[n:] for n >= 0
Slice(s, n) == IF n >= Len(s) THEN <<>> ELSE SubSeq(s, n + 1, Len(s))

\* s.startswith(prefix)
startswith(s, prefix) ==
    Len(s) >= Len(prefix) /\ SubSeq(s, 1, Len(prefix)) = prefix

\* s.lstrip() and s.rstrip(): the whitespace of these texts is the space.
RECURSIVE lstrip(_)
lstrip(s) == IF s # <<>> /\ Head(s) = " " THEN lstrip(Tail(s)) ELSE s

RECURSIVE rstrip(_)
rstrip(s) ==
    IF s # <<>> /\ s[Len(s)] = " " THEN rstrip(SubSeq(s, 1, Len(s) - 1)) ELSE s

\* s.strip()
strip(s) == lstrip(rstrip(s))

\* s.replace('  ', '&nbsp;&nbsp;'): left to right, non-overlapping.
RECURSIVE replace_spaces(_)
replace_spaces(s) ==
    IF s = <<>> THEN <<>>
    ELSE IF startswith(s, <<" ", " ">>)
    THEN <<"&nbsp;", "&nbsp;">> \o replace_spaces(Slice(s, 2))
    ELSE <<Head(s)>> \o replace_spaces(Tail(s))

\* s.split('\n'): the text after the last newline is the last line.
RECURSIVE split(_, _)
split(s, line) ==
    IF s = <<>> THEN <<line>>
    ELSE IF Head(s) = "NL" THEN <<line>> \o split(Tail(s), <<>>)
    ELSE split(Tail(s), Append(line, Head(s)))

\* '\n'.join(lines)
RECURSIVE join(_)
join(lines) ==
    IF lines = <<>> THEN <<>>
    ELSE IF Len(lines) = 1 THEN lines[1]
    ELSE lines[1] \o <<"NL">> \o join(Tail(lines))

\* Flowables: Paragraph(text, style) and Spacer(1, h*inch), h in hundredths.
Paragraph(text, style) == [style |-> style, text |-> text, h |-> 0]
Spacer(h) == [style |-> "Spacer", text |-> <<>>, h |-> h]

\* story.extend(current_section) when current_section is not empty.
Flush(st) ==
    [st EXCEPT !.story = st.story \o st.current_section, !.current_section = <<>>]

\* The body of the loop for one line of content.split('\n').
ProcessLine(st, raw) ==
    LET line == strip(raw)
    IN  IF line = <<>>
        THEN [st EXCEPT !.story = Append(st.story, Spacer(15)),
                        !.in_bullet_list = FALSE]
        ELSE IF startswith(line, <<"#", " ">>)
        THEN [Flush(st) EXCEPT
                 !.story = Flush(st).story \o
                           <<Paragraph(Slice(line, 2), "Heading1"), Spacer(15)>>,
                 !.in_bullet_list = FALSE]
        ELSE IF startswith(line, <<"#", "#", " ">>)
        THEN [Flush(st) EXCEPT
                 !.story = Flush(st).story \o
                           <<Paragraph(Slice(line, 3), "Heading2"), Spacer(10)>>,
                 !.in_bullet_list = FALSE]
        ELSE IF startswith(line, <<"*", " ">>) \/ startswith(line, <<"-", " ">>)
        THEN [st EXCEPT
                 !.current_section =
                     Append(st.current_section,
                            Paragraph(<<"<bullet>", " ">> \o replace_spaces(Slice(line, 2)),
                                      "BulletPoint")),
                 !.in_bullet_list = TRUE]
        ELSE IF startswith(line, <<" ", " ", "*", " ">>)
                \/ startswith(line, <<" ", " ", "-", " ">>)
        THEN [st EXCEPT
                 !.current_section =
                     Append(st.current_section,
                            Paragraph(<<" ", " ", "<circle>", " ">>
                                          \o replace_spaces(Slice(line, 4)),
                                      "NestedBullet"))]
        ELSE IF st.in_bullet_list
                /\ (startswith(line, <<" ", " ">>) \/ startswith(line, <<" ", " ", " ">>))
        THEN LET n == Len(st.current_section)
                 last_item == st.current_section[n]
                 text == last_item.text \o <<" ">> \o replace_spaces(strip(line))
             IN  [st EXCEPT !.current_section[n] = Paragraph(text, "BulletPoint")]
        ELSE [st EXCEPT
                 !.current_section =
                     Append(st.current_section,
                            Paragraph(replace_spaces(line), "Normal")),
                 !.in_bullet_list = FALSE]

(***************************************************************************)
(* SpecRender: _build_pdf_bytes over bounded markup                        *)
(***************************************************************************)
MaxLines == 4

\* "# T", "## S", "* a", "* b", "  c", "  * n", "p" and the blank line.
LineInputs ==
    { <<"#", " ", "T">>,
      <<"#", "#", " ", "S">>,
      <<"*", " ", "a">>,
      <<"*", " ", "b">>,
      <<" ", " ", "c">>,
      <<" ", " ", "*", " ", "n">>,
      <<"p">>,
      <<>> }

\* "# T", "## S", two bullets and a continuation line right after the first
\* or the second bullet.
ScenarioMarkups ==
    { << <<"#", " ", "T">>, <<"#", "#", " ", "S">>, <<"*", " ", "a">>,
         <<" ", " ", "c">>, <<"*", " ", "b">> >>,
      << <<"#", " ", "T">>, <<"#", "#", " ", "S">>, <<"*", " ", "a">>,
         <<"*", " ", "b">>, <<" ", " ", "c">> >> }

ReportTitle == <<"R">>

InitRender ==
    /\ IdleStore /\ IdleScore /\ IdleClock /\ IdleWorkers
    /\ config \in [genai : {FALSE}, key : {FALSE}, reportlab : BOOLEAN]
    /\ \E lines \in (SeqUpTo(LineInputs, MaxLines) \ {<<>>}) \cup ScenarioMarkups :
        content = join(lines)
    /\ lineNo = 0
    /\ story = <<>>
    /\ current_section = <<>>
    /\ in_bullet_list = FALSE
    /\ resp = NoResp
    /\ pc = "render"

\* reportlab cannot be imported: the text is returned as bytes.
RenderPlainText ==
    /\ pc = "render"
    /\ ~config.reportlab
    /\ resp' = [kind |-> "text_bytes",
                body |-> ReportTitle \o <<"NL", "NL">> \o content]
    /\ pc' = "done"
    /\ UNCHANGED <<storeVars, scoreVars, renderVars, config, inflight, today>>

\* The title paragraph and the spacer after it.
RenderTitle ==
    /\ pc = "render"
    /\ config.reportlab
    /\ story' = <<Paragraph(ReportTitle, "Title"), Spacer(20)>>
    /\ pc' = "lines"
    /\ UNCHANGED <<storeVars, scoreVars, content, lineNo, current_section,
                   in_bullet_list, resp, config, inflight, today>>

\* One iteration of `for line in content.split('\n')`.
RenderLine ==
    /\ pc = "lines"
    /\ lineNo < Len(split(content, <<>>))
    /\ LET st == ProcessLine([story |-> story,
                              current_section |-> current_section,
                              in_bullet_list |-> in_bullet_list],
                             split(content, <<>>)[lineNo + 1])
       IN  /\ story' = st.story
           /\ current_section' = st.current_section
           /\ in_bullet_list' = st.in_bullet_list
    /\ lineNo' = lineNo + 1
    /\ UNCHANGED <<storeVars, scoreVars, content, resp, config, inflight, today, pc>>

\* After the loop: the remaining content is added and the document built.
RenderBuild ==
    /\ pc = "lines"
    /\ lineNo = Len(split(content, <<>>))
    /\ story' = story \o current_section
    /\ current_section' = <<>>
    /\ resp' = [kind |-> "pdf", story |-> story']
    /\ pc' = "done"
    /\ UNCHANGED <<storeVars, scoreVars, content, lineNo, in_bullet_list,
                   config, inflight, today>>

NextRender == RenderPlainText \/ RenderTitle \/ RenderLine \/ RenderBuild

SpecRender == InitRender /\ [][NextRender]_vars

(***************************************************************************)
(* Document renderer: properties                                           *)
(***************************************************************************)
InputLines == split(content, <<>>)

IsBulletLine(raw) == startswith(raw, <<"*", " ">>)

\* Indented by two or more spaces, not blank, and no bullet marker after the
\* indentation.
IsContinuationLine(raw) ==
    /\ startswith(raw, <<" ", " ">>)
    /\ lstrip(raw) # <<>>
    /\ ~startswith(lstrip(raw), <<"*", " ">>)
    /\ ~startswith(lstrip(raw), <<"-", " ">>)

CountLines(P(_)) == Cardinality({i \in 1..Len(InputLines) : P(InputLines[i])})

IsTopHeadingLine(raw) == startswith(raw, <<"#", " ">>)
IsSubHeadingLine(raw) == startswith(raw, <<"#", "#", " ">>)

\* One `# ` line, one `## ` line, two `* ` lines and one continuation line
\* that directly follows a bullet line.
IsRoundTripMarkup ==
    /\ Len(InputLines) = 5
    /\ CountLines(IsTopHeadingLine) = 1
    /\ CountLines(IsSubHeadingLine) = 1
    /\ CountLines(IsBulletLine) = 2
    /\ CountLines(IsContinuationLine) = 1
    /\ \E i \in 2..5 :
           IsContinuationLine(InputLines[i]) /\ IsBulletLine(InputLines[i - 1])

CountBlocks(blocks, style) ==
    Cardinality({i \in 1..Len(blocks) : blocks[i].style = style})

\* C1 (as claimed): such a markup renders to exactly one top-level heading
\* block, one second-level heading block and a bullet block whose text is the
\* bullet text, a space and the continuation text; the continuation line is
\* no paragraph block of its own.
ContinuationJoinsBullet ==
    (pc = "done" /\ resp.kind = "pdf" /\ IsRoundTripMarkup) =>
        /\ CountBlocks(resp.story, "Heading1") = 1
        /\ CountBlocks(resp.story, "Heading2") = 1
        /\ CountBlocks(resp.story, "Normal") = 0
        /\ \E i \in 2..5 :
               /\ IsContinuationLine(InputLines[i])
               /\ \E b \in 1..Len(resp.story) :
                      /\ resp.story[b].style = "BulletPoint"
                      /\ resp.story[b].text =
                             <<"<bullet>", " ">> \o Slice(InputLines[i - 1], 2)
                                 \o <<" ">> \o lstrip(InputLines[i])

\* The step of the loop that consumes one more line of the content.
ConsumesLine == pc = "lines" /\ lineNo' = lineNo + 1

IsBlankLine(raw) == strip(raw) = <<>>

\* C14: blocks are emitted in the order of the lines: a blank line flushes
\* what is pending, so its gap follows every block of the lines before it,
\* and it leaves the in-bullet-list state false. The code adds the gap to
\* the story and leaves the pending blocks pending, to be emitted after it.
BlankLineFlushesPending ==
    [][(ConsumesLine /\ IsBlankLine(InputLines[lineNo'])) =>
          /\ story' = (story \o current_section) \o <<Spacer(15)>>
          /\ current_section' = <<>>
          /\ in_bullet_list' = FALSE]_vars

IsNestedBulletLine(raw) ==
    \/ startswith(raw, <<" ", " ", "*", " ">>)
    \/ startswith(raw, <<" ", " ", "-", " ">>)

\* C15: a line of two spaces and a bullet marker becomes one nested bullet
\* item, with the circle glyph and not the top-level bullet glyph, and the
\* in-bullet-list state stays as it was. The code strips the line first and
\* emits a top-level bullet, which sets the state.
NestedBulletLineIsNested ==
    [][(ConsumesLine /\ IsNestedBulletLine(InputLines[lineNo'])) =>
          /\ story' = story
          /\ Len(current_section') = Len(current_section) + 1
          /\ LET item == current_section'[Len(current_section')]
             IN  /\ item.style = "NestedBullet"
                 /\ "<circle>" \in Range(item.text)
                 /\ "<bullet>" \notin Range(item.text)
          /\ in_bullet_list' = in_bullet_list]_vars

====
